---------------------------- MODULE Spec2Model ----------------------------
(***************************************************************************)
(* Model of impresso_essentials/versioning/aggregators.py: the per-record  *)
(* extractors, the tunique (chunk / agg / finalize) aggregation and the    *)
(* five compute_stats_in_*_bag pipelines.                                  *)
(*                                                                         *)
(* Python values are modelled as follows.                                  *)
(*   str        a sequence of one-character strings ("N-0" is              *)
(*              <<"N","-","0">>), so that split and join do real work      *)
(*   dict       a function from field names to values; a missing key is a  *)
(*              field name outside DOMAIN                                  *)
(*   list       a sequence                                                 *)
(*   raise      an outcome [status |-> "raised", error |-> ...]            *)
(* A dask Bag is a sequence of partitions, each a sequence of records.     *)
(***************************************************************************)
EXTENDS Integers, Sequences, FiniteSets, TLC

VARIABLES
    kind,            \* which kind of records the bag holds
    include_np,      \* rebuilt pipeline argument include_np
    passim,          \* rebuilt pipeline argument passim
    convert_string,  \* engine setting: object columns are held as strings
    bag,             \* the input Bag: a sequence of partitions
    ret,             \* outcome of the pipeline call, per client argument
    progress_shown,  \* whether progress(...) has been called
    ex_call,         \* extractor call under test: function, record, options
    ex_out,          \* outcome of the extractor call
    tu_in,           \* tunique under test: partitions of <<group, value>> rows
    tu_acc,          \* tunique under test: intermediate per-partition results
    tu_out,          \* tunique under test: finalized result
    tu_pc            \* tunique under test: "chunk", "agg" or "done"

vars == <<kind, include_np, passim, convert_string, bag, ret, progress_shown,
          ex_call, ex_out, tu_in, tu_acc, tu_out, tu_pc>>

pipe_vars == <<kind, include_np, passim, convert_string, bag, ret, progress_shown>>
ex_vars == <<ex_call, ex_out>>
tu_vars == <<tu_in, tu_acc, tu_out, tu_pc>>

-----------------------------------------------------------------------------
(* Bounds *)

\* records in the input bag of a pipeline call
MaxRecords == 3
\* partitions of the input bag of a pipeline call
MaxParts == 2
\* rows given to tunique
TuMaxRows == 3
\* partitions given to tunique
TuMaxParts == 3

-----------------------------------------------------------------------------
(* Generic helpers *)

Pending == [status |-> "pending"]
Returned(v) == [status |-> "returned", value |-> v]
Raised(e) == [status |-> "raised", error |-> e]

Range(s) == {s[i] : i \in 1..Len(s)}

RECURSIVE SumSeq(_)
SumSeq(s) == IF s = <<>> THEN 0 ELSE Head(s) + SumSeq(Tail(s))

RECURSIVE Concat(_)
Concat(ss) == IF ss = <<>> THEN <<>> ELSE Head(ss) \o Concat(Tail(ss))

RECURSIVE SetToSeq(_)
SetToSeq(S) ==
    IF S = {} THEN <<>>
    ELSE LET x == CHOOSE y \in S : TRUE IN <<x>> \o SetToSeq(S \ {x})

MapSeq(s, F(_)) == [i \in 1..Len(s) |-> F(s[i])]

\* all sequences over S of length at most n
SeqsUpTo(S, n) == UNION {[1..k -> S] : k \in 0..n}

\* all ways of cutting the sequence s into n consecutive partitions
RECURSIVE Cuts(_, _)
Cuts(s, n) ==
    IF n = 1 THEN {<<s>>}
    ELSE UNION {{<<SubSeq(s, 1, k)>> \o rest : rest \in Cuts(SubSeq(s, k + 1, Len(s)), n - 1)}
                : k \in 0..Len(s)}

-----------------------------------------------------------------------------
(* Python str operations *)

\* code-point order of the characters used
Alphabet == <<" ", "-", "0", "1", "2", "3", "9", "G", "I", "L", "N", "Q", "a", "b", "x", "y">>
Ord(c) == CHOOSE i \in 1..Len(Alphabet) : Alphabet[i] = c

\* s.split(sep) for a one-character separator
RECURSIVE Split(_, _)
Split(s, sep) ==
    IF \A i \in 1..Len(s) : s[i] # sep THEN <<s>>
    ELSE LET k == CHOOSE i \in 1..Len(s) :
                      s[i] = sep /\ \A j \in 1..(i - 1) : s[j] # sep
         IN <<SubSeq(s, 1, k - 1)>> \o Split(SubSeq(s, k + 1, Len(s)), sep)

\* sep.join(parts), sep a string
RECURSIVE Join(_, _)
Join(parts, sep) ==
    IF parts = <<>> THEN <<>>
    ELSE IF Len(parts) = 1 THEN parts[1]
    ELSE parts[1] \o sep \o Join(Tail(parts), sep)

\* the whitespace characters used
Whitespace == {" ", "\n"}

\* len(s.split(" ")): every single blank separates, empty pieces are counted
WordCount_blank(s) == Len(Split(s, " "))

\* len(s.split()): the number of maximal runs of non-whitespace characters
WordCount(s) ==
    Cardinality({i \in 1..Len(s) :
                    s[i] \notin Whitespace /\ (i = 1 \/ s[i - 1] \in Whitespace)})

\* s < t for Python strings
RECURSIVE StrLess(_, _)
StrLess(s, t) ==
    IF t = <<>> THEN FALSE
    ELSE IF s = <<>> THEN TRUE
    ELSE IF Head(s) # Head(t) THEN Ord(Head(s)) < Ord(Head(t))
    ELSE StrLess(Tail(s), Tail(t))


\* sorted(S) for a set of Python strings
RECURSIVE Sorted(_)
Sorted(S) ==
    IF S = {} THEN <<>>
    ELSE LET m == CHOOSE x \in S : \A y \in S \ {x} : StrLess(x, y)
         IN <<m>> \o Sorted(S \ {m})

-----------------------------------------------------------------------------
(* Raw records *)

\* the Python value None where a string may stand
PyNone == <<"None_">>
NIL == <<"N", "I", "L">>
NoneLabel == <<"N", "o", "n", "e">>

NpN == <<"N">>
NpG == <<"G">>
Y19 == <<"1", "9">>
Y20 == <<"2", "0">>
EdA == <<"a">>
EdB == <<"b">>
Q1 == <<"Q", "1">>
Q2 == <<"Q", "2">>
Q3 == <<"Q", "3">>

IssueId(np, yr, ed) == Join(<<np, yr, ed>>, <<"-">>)
CiId(np, yr, ed, n) == Join(<<np, yr, ed, <<n>>>>, <<"-">>)

\* an id with no dash, such as "NZZ"
NoDashId == <<"N">>

Item(tp) == [m |-> [tp |-> tp]]
Mention(q) == [wkd_id |-> q]
MentionNoLink == [surface |-> <<"x">>]

\* canonical issues a bag may hold
CanonicalIssues ==
    { [id |-> IssueId(NpN, Y19, EdA), pp |-> <<1, 2>>,
       i |-> <<Item("image"), Item("article")>>],
      [id |-> IssueId(NpN, Y19, EdB), pp |-> <<1, 2, 3>>, i |-> <<Item("article")>>],
      [id |-> IssueId(NpG, Y20, EdA), pp |-> <<1, 1>>,
       i |-> <<Item("image"), Item("image")>>],
      [id |-> NoDashId, pp |-> <<1>>, i |-> <<>>],
      [pp |-> <<1>>, i |-> <<>>] }

\* rebuilt (or passim) content items a bag may hold
RebuiltArticles ==
    { [id |-> CiId(NpN, Y19, EdA, "1"), ft |-> <<"x", " ", "y">>],
      [id |-> CiId(NpN, Y19, EdA, "2")],
      [id |-> CiId(NpG, Y19, EdB, "1"), ft |-> <<" ", "x", " ", " ", "y", " ", "x">>],
      [id |-> CiId(NpN, Y20, EdA, "1"), ft |-> <<>>],
      [id |-> NoDashId, ft |-> <<"x">>] }

\* entity-linked content items a bag may hold
EntityItems ==
    { [id |-> CiId(NpN, Y19, EdA, "1"), nes |-> <<Mention(Q1), Mention(Q2)>>],
      [id |-> CiId(NpN, Y19, EdB, "1"), nes |-> <<Mention(Q2), Mention(Q3), Mention(Q2)>>],
      [id |-> CiId(NpN, Y19, EdB, "2"),
       nes |-> <<Mention(NIL), MentionNoLink, Mention(PyNone)>>],
      [id |-> CiId(NpG, Y20, EdA, "1"), nes |-> <<>>],
      [id |-> NoDashId, nes |-> <<>>] }

\* language-identification content items a bag may hold
LangidentItems ==
    { [id |-> CiId(NpN, Y19, EdA, "1"), tp |-> "ar", lg |-> <<"f", "r">>],
      [id |-> CiId(NpN, Y19, EdA, "2"), tp |-> "img", lg |-> PyNone],
      [id |-> CiId(NpN, Y19, EdB, "1"), tp |-> "ar", lg |-> <<"d", "e">>],
      [id |-> CiId(NpG, Y20, EdA, "1"), tp |-> "ar", lg |-> <<"f", "r">>],
      [id |-> NoDashId, tp |-> "ar", lg |-> <<"f", "r">>] }

\* Solr-formatted content items a bag may hold
SolrItems ==
    { [meta_journal_s |-> NpN, meta_year_i |-> 1919,
       meta_issue_id_s |-> IssueId(NpN, Y19, EdA)],
      [meta_journal_s |-> NpN, meta_year_i |-> 1919,
       meta_issue_id_s |-> IssueId(NpN, Y19, EdB)],
      [meta_journal_s |-> NpN, meta_year_i |-> 1920,
       meta_issue_id_s |-> IssueId(NpN, Y20, EdA)],
      [meta_journal_s |-> NpG, meta_year_i |-> 1919,
       meta_issue_id_s |-> IssueId(NpG, Y19, EdA)],
      [meta_journal_s |-> NpG, meta_issue_id_s |-> IssueId(NpG, Y19, EdA)] }

Kinds == {"canonical", "rebuilt", "entities", "langident", "solr"}

Universe(k) ==
    CASE k = "canonical" -> CanonicalIssues
      [] k = "rebuilt" -> RebuiltArticles
      [] k = "entities" -> EntityItems
      [] k = "langident" -> LangidentItems
      [] k = "solr" -> SolrItems

-----------------------------------------------------------------------------
(* Record extractors *)

IsReturned(o) == o.status = "returned"
IsRaised(o) == o.status = "raised"

NpYr(split_id) == [np_id |-> split_id[1], year |-> split_id[2]]

\* counts_for_canonical_issue with len(issue["pp"]) in place of len(set(issue["pp"]))
counts_for_canonical_issue_listed(issue, include_np_yr) ==
    IF include_np_yr /\ "id" \notin DOMAIN issue THEN Raised("KeyError")
    ELSE IF include_np_yr /\ Len(Split(issue.id, "-")) < 2 THEN Raised("IndexError")
    ELSE IF "pp" \notin DOMAIN issue \/ "i" \notin DOMAIN issue THEN Raised("KeyError")
    ELSE LET counts == IF include_np_yr THEN NpYr(Split(issue.id, "-")) ELSE <<>>
         IN Returned(
               [issues |-> 1,
                pages |-> Len(issue.pp),
                content_items_out |-> Len(issue.i),
                images |-> Len(SelectSeq(issue.i, LAMBDA item : item.m.tp = "image"))]
               @@ counts)

counts_for_canonical_issue(issue, include_np_yr) ==
    IF include_np_yr /\ "id" \notin DOMAIN issue THEN Raised("KeyError")
    ELSE IF include_np_yr /\ Len(Split(issue.id, "-")) < 2 THEN Raised("IndexError")
    ELSE IF "pp" \notin DOMAIN issue \/ "i" \notin DOMAIN issue THEN Raised("KeyError")
    ELSE LET counts == IF include_np_yr THEN NpYr(Split(issue.id, "-")) ELSE <<>>
         IN Returned(
               [issues |-> 1,
                pages |-> Cardinality(Range(issue.pp)),
                content_items_out |-> Len(issue.i),
                images |-> Len(SelectSeq(issue.i, LAMBDA item : item.m.tp = "image"))]
               @@ counts)

counts_for_rebuilt(rebuilt_ci, incl_np, is_passim) ==
    IF "id" \notin DOMAIN rebuilt_ci THEN Raised("KeyError")
    ELSE LET split_id == Split(rebuilt_ci.id, "-")
         IN IF Len(split_id) < 2 THEN Raised("IndexError")
            ELSE LET counts == IF incl_np THEN [np_id |-> split_id[1]] ELSE <<>>
                     base == [year |-> split_id[2],
                              issues |-> Join(SubSeq(split_id, 1, Len(split_id) - 1), <<"-">>),
                              content_items_out |-> 1]
                     tokens == IF "ft" \in DOMAIN rebuilt_ci
                               THEN WordCount(rebuilt_ci.ft) ELSE 0
                 IN Returned(IF is_passim THEN base @@ counts
                             ELSE [ft_tokens |-> tokens] @@ base @@ counts)

\* the lambda mapped over the bag in compute_stats_in_entities_bag
counts_for_entities(ci) ==
    IF "id" \notin DOMAIN ci THEN Raised("KeyError")
    ELSE LET split_id == Split(ci.id, "-")
         IN IF Len(split_id) < 2 THEN Raised("IndexError")
            ELSE IF "nes" \notin DOMAIN ci THEN Raised("KeyError")
            ELSE Returned(
                   [np_id |-> split_id[1],
                    year |-> split_id[2],
                    issues |-> Join(SubSeq(split_id, 1, Len(split_id) - 1), <<"-">>),
                    content_items_out |-> 1,
                    ne_mentions |-> Len(ci.nes),
                    ne_entities |->
                        Sorted({ci.nes[j].wkd_id : j \in
                                  {j \in 1..Len(ci.nes) :
                                      /\ "wkd_id" \in DOMAIN ci.nes[j]
                                      /\ ci.nes[j].wkd_id \notin {NIL, PyNone}}})])

\* the lambda mapped over the bag in compute_stats_in_langident_bag
counts_for_langident(ci) ==
    IF "id" \notin DOMAIN ci THEN Raised("KeyError")
    ELSE LET split_id == Split(ci.id, "-")
         IN IF Len(split_id) < 2 THEN Raised("IndexError")
            ELSE IF "tp" \notin DOMAIN ci \/ "lg" \notin DOMAIN ci THEN Raised("KeyError")
            ELSE Returned(
                   [np_id |-> split_id[1],
                    year |-> split_id[2],
                    issues |-> Join(SubSeq(split_id, 1, Len(split_id) - 1), <<"-">>),
                    content_items_out |-> 1,
                    images |-> IF ci.tp = "img" THEN 1 ELSE 0,
                    lang_fd |-> IF ci.lg = PyNone THEN NoneLabel ELSE ci.lg])

\* the lambda mapped over the bag in compute_stats_in_solr_text_bag
counts_for_solr_text(ci) ==
    IF {"meta_journal_s", "meta_year_i", "meta_issue_id_s"} \subseteq DOMAIN ci
    THEN Returned([np_id |-> ci.meta_journal_s,
                   year |-> ci.meta_year_i,
                   issues |-> ci.meta_issue_id_s,
                   content_items_out |-> 1])
    ELSE Raised("KeyError")


-----------------------------------------------------------------------------
(* Grouped aggregation *)

KeyOf(row, by) == [j \in 1..Len(by) |-> row[by[j]]]

GroupsOf(part, by) == {KeyOf(part[i], by) : i \in 1..Len(part)}

\* the column col of one partition, grouped by the key: group -> list of values
grouped(part, by, col) ==
    [g \in GroupsOf(part, by) |->
        LET rows == SelectSeq(part, LAMBDA r : KeyOf(r, by) = g)
        IN [i \in 1..Len(rows) |-> rows[i][col]]]

\* the lists of group g in the series ss[1], ss[2], ..., concatenated
RECURSIVE ConcatGroup(_, _)
ConcatGroup(ss, g) ==
    IF ss = <<>> THEN <<>>
    ELSE (IF g \in DOMAIN Head(ss) THEN Head(ss)[g] ELSE <<>>) \o ConcatGroup(Tail(ss), g)

AllGroups(ss) == UNION {DOMAIN ss[i] : i \in 1..Len(ss)}

\* tunique: applied to each partition's grouped column
chunk(s) == [g \in DOMAIN s |-> SetToSeq(Range(s[g]))]

\* agg without its groupby: every group is given the lists of all groups
agg_ungrouped(ss) ==
    [g \in AllGroups(ss) |-> Concat([k \in 1..Len(SetToSeq(AllGroups(ss))) |->
                                       ConcatGroup(ss, SetToSeq(AllGroups(ss))[k])])]

\* tunique: applied to the concatenation ss of results of chunk (or of agg)
agg(ss) == [g \in AllGroups(ss) |-> ConcatGroup(ss, g)]

\* finalize with len(x) in place of len(set(x))
finalize_len(s) == [g \in DOMAIN s |-> Len(s[g])]

\* tunique: applied to the result of agg
finalize(s) == [g \in DOMAIN s |-> Cardinality(Range(s[g]))]

tunique(ss) == finalize(agg(MapSeq(ss, chunk)))

\* sum that keeps the first partition's partial sum of each group only
agg_sum_first(ss) ==
    LET partial == MapSeq(ss, LAMBDA s : [g \in DOMAIN s |-> <<SumSeq(s[g])>>])
    IN [g \in AllGroups(ss) |-> Head(ConcatGroup(partial, g))]

\* the built-in sum given to agg: per-partition sums, then their sum
agg_sum(ss) ==
    LET partial == MapSeq(ss, LAMBDA s : [g \in DOMAIN s |-> <<SumSeq(s[g])>>])
    IN [g \in AllGroups(ss) |-> SumSeq(ConcatGroup(partial, g))]

\* the built-in list given to agg: the values of the group, collected
agg_list(ss) == [g \in AllGroups(ss) |-> ConcatGroup(ss, g)]

Reduce(how, ss) ==
    CASE how = "sum" -> agg_sum(ss)
      [] how = "tunique" -> tunique(ss)
      [] how = "list" -> agg_list(ss)

\* df.groupby(by).agg(spec): group -> record of reduced columns
groupby_agg(parts, by, spec) ==
    LET reduced == [col \in DOMAIN spec |->
                       Reduce(spec[col], MapSeq(parts, LAMBDA p : grouped(p, by, col)))]
        groups == UNION {GroupsOf(parts[p], by) : p \in 1..Len(parts)}
    IN [g \in groups |-> [col \in DOMAIN spec |-> reduced[col][g]]]

\* tuples of strings, compared as Python compares tuples
RECURSIVE KeyLess(_, _)
KeyLess(a, b) ==
    IF a = <<>> \/ b = <<>> THEN FALSE
    ELSE IF Head(a) # Head(b) THEN StrLess(Head(a), Head(b))
    ELSE KeyLess(Tail(a), Tail(b))

\* the (journal, year) keys of the Solr pipeline, the year an integer
SolrKeyLess(a, b) ==
    IF a[1] # b[1] THEN StrLess(a[1], b[1]) ELSE a[2] < b[2]

RECURSIVE SortedKeys(_)
SortedKeys(S) ==
    IF S = {} THEN <<>>
    ELSE LET m == CHOOSE x \in S : \A y \in S \ {x} : KeyLess(x, y)
         IN <<m>> \o SortedKeys(S \ {m})

RECURSIVE SortedSolrKeys(_)
SortedSolrKeys(S) ==
    IF S = {} THEN <<>>
    ELSE LET m == CHOOSE x \in S : \A y \in S \ {x} : SolrKeyLess(x, y)
         IN <<m>> \o SortedSolrKeys(S \ {m})

\* the grouped frame as rows in key order: the key is the index of each row
frame(gdf, keys) == [i \in 1..Len(keys) |-> [index |-> keys[i], cols |-> gdf[keys[i]]]]

\* df.reset_index(): the index levels become columns
reset_index(df, by) ==
    [i \in 1..Len(df) |->
        [index |-> <<i>>,
         cols |-> [f \in Range(by) |->
                      df[i].index[CHOOSE j \in 1..Len(by) : by[j] = f]] @@ df[i].cols]]


\* df.to_bag(format="dict").compute(): the columns of each row, the index left out
to_bag(df) == [i \in 1..Len(df) |-> df[i].cols]

-----------------------------------------------------------------------------
(* Pipelines *)

NoClient == "None"
SomeClient == "Client"
Clients == {NoClient, SomeClient}

\* bag.map(f)
MapBag(b, F(_)) == [p \in 1..Len(b) |-> [i \in 1..Len(b[p]) |-> F(b[p][i])]]

\* the exceptions raised by the mapped function, and the rows it returned
Errors(mapped) ==
    UNION {{mapped[p][i].error : i \in {i \in 1..Len(mapped[p]) : IsRaised(mapped[p][i])}}
           : p \in 1..Len(mapped)}

Rows(mapped) == [p \in 1..Len(mapped) |-> [i \in 1..Len(mapped[p]) |-> mapped[p][i].value]]

\* a computation that fails: it raises one of the errors
Failing(errors) == [status |-> "raised", errors |-> errors]

\* a map that drops the records for which f raises
map_result_skip(mapped) ==
    Returned([p \in 1..Len(mapped) |-> MapSeq(SelectSeq(mapped[p], IsReturned),
                                              LAMBDA o : o.value)])

\* computing bag.map(f): an exception raised by f for any record is raised by
\* the computation; otherwise the rows are the values f returned
map_result(mapped) ==
    IF Errors(mapped) # {} THEN Failing(Errors(mapped)) ELSE Returned(Rows(mapped))

\* progress(x) taken for the frame: what progress returns is not the rows
with_progress_lost(x, client) == IF client = NoClient THEN x ELSE <<>>

\* "if client is not None: progress(x)": x is displayed, and is what it was
with_progress(x, client) == x

compute_stats_in_canonical_bag(s3_canonical_issues, client) ==
    LET mapped == map_result(MapBag(s3_canonical_issues,
                         LAMBDA i : counts_for_canonical_issue(i, TRUE)))
        by == <<"np_id", "year">>
    IN IF IsRaised(mapped) THEN mapped
       ELSE LET count_df == mapped.value
                gdf == groupby_agg(count_df, by,
                          [issues |-> "sum", pages |-> "sum",
                           content_items_out |-> "sum", images |-> "sum"])
                aggregated_df == reset_index(frame(gdf, SortedKeys(DOMAIN gdf)), by)
            IN Returned(to_bag(with_progress(aggregated_df, client)))

compute_stats_in_rebuilt_bag(rebuilt_articles, incl_np, is_passim, client) ==
    LET mapped == map_result(MapBag(rebuilt_articles,
                         LAMBDA rf : counts_for_rebuilt(rf, incl_np, is_passim)))
        gp_key == IF incl_np THEN <<"np_id", "year">> ELSE <<"year">>
    IN IF IsRaised(mapped) THEN mapped
       ELSE LET rebuilt_count_df == mapped.value
                gdf == IF ~is_passim
                       THEN groupby_agg(rebuilt_count_df, gp_key,
                               [issues |-> "tunique", content_items_out |-> "sum",
                                ft_tokens |-> "sum"])
                       ELSE groupby_agg(rebuilt_count_df, gp_key,
                               [issues |-> "tunique", content_items_out |-> "sum"])
                grouped_df == frame(gdf, SortedKeys(DOMAIN gdf))
                aggregated_df == IF incl_np THEN reset_index(grouped_df, gp_key)
                                 ELSE grouped_df
            IN Returned(to_bag(with_progress(aggregated_df, client)))


\* str(x) for a list x of strings: "['Q1', 'Q2']"
Repr(x) ==
    <<"[">> \o Join(MapSeq(x, LAMBDA e : <<"'">> \o e \o <<"'">>), <<",", " ">>) \o <<"]">>

\* a cell of an object column: a Python list, or a Python string
ListCell(x) == [list |-> TRUE, v |-> x]
StrCell(x) == [list |-> FALSE, v |-> x]

\* a list held in an object column: kept as it is, or held as its string
\* when the engine converts object columns to strings
object_cell(x, as_string) == IF as_string THEN StrCell(Repr(x)) ELSE ListCell(x)

\* the missing value that explode puts in the row of an empty list
NaN == <<"NaN_">>

\* lambda x: x if isinstance(x, list) else [x]
as_list(cell) == IF cell.list THEN cell.v ELSE <<cell.v>>

\* df.explode(col) on one partition: one row per element of the list,
\* one row holding NaN for an empty list
RECURSIVE explode(_, _)
explode(part, col) ==
    IF part = <<>> THEN <<>>
    ELSE LET row == Head(part)
             vals == IF row[col] = <<>> THEN <<NaN>> ELSE row[col]
         IN [k \in 1..Len(vals) |-> [row EXCEPT ![col] = vals[k]]]
            \o explode(Tail(part), col)

compute_stats_in_entities_bag(s3_entities, client, as_string) ==
    LET mapped == map_result(MapBag(s3_entities, counts_for_entities))
        by == <<"np_id", "year">>
    IN IF IsRaised(mapped) THEN mapped
       ELSE LET rows == mapped.value
                listed == [p \in 1..Len(rows) |->
                             [i \in 1..Len(rows[p]) |->
                                [rows[p][i] EXCEPT !.ne_entities =
                                    as_list(object_cell(@, as_string))]]]
                count_df == [p \in 1..Len(listed) |-> explode(listed[p], "ne_entities")]
                gdf == groupby_agg(count_df, by,
                          [issues |-> "tunique", content_items_out |-> "sum",
                           ne_mentions |-> "sum", ne_entities |-> "tunique"])
                aggregated_df == reset_index(frame(gdf, SortedKeys(DOMAIN gdf)), by)
            IN Returned(to_bag(with_progress(aggregated_df, client)))

\* ast.literal_eval: parses the string of a list; anything but a string is refused
literal_eval(cell) ==
    IF cell.list THEN Raised("ValueError")
    ELSE LET s == cell.v
             inner == SubSeq(s, 2, Len(s) - 1)
             strip(e) == SelectSeq(e, LAMBDA c : c \notin {" ", "'"})
         IN IF Len(s) < 2 \/ s[1] # "[" \/ s[Len(s)] # "]" THEN Raised("ValueError")
            ELSE IF inner = <<>> THEN Returned(<<>>)
            ELSE Returned(MapSeq(Split(inner, ","), strip))

\* dict(Counter(x)) for a list x
Counter(x) == [l \in Range(x) |-> Cardinality({i \in 1..Len(x) : x[i] = l})]

\* freq, mapped over the records of the aggregated bag
freq(x) ==
    LET parsed == literal_eval(x.lang_fd)
    IN IF IsRaised(parsed) THEN parsed
       ELSE Returned([x EXCEPT !.lang_fd = Counter(parsed.value)])

compute_stats_in_langident_bag(s3_langident, client, as_string) ==
    LET mapped == map_result(MapBag(s3_langident, counts_for_langident))
        by == <<"np_id", "year">>
    IN IF IsRaised(mapped) THEN mapped
       ELSE LET count_df == mapped.value
                gdf == groupby_agg(count_df, by,
                          [issues |-> "tunique", content_items_out |-> "sum",
                           images |-> "sum", lang_fd |-> "list"])
                aggregated_df == reset_index(frame(gdf, SortedKeys(DOMAIN gdf)), by)
                records == [i \in 1..Len(aggregated_df) |->
                              [to_bag(aggregated_df)[i] EXCEPT !.lang_fd =
                                  object_cell(@, as_string)]]
                agg_bag == map_result(<<MapSeq(records, freq)>>)
            IN IF IsRaised(agg_bag) THEN agg_bag
               ELSE Returned(with_progress(agg_bag.value[1], client))

compute_stats_in_solr_text_bag(s3_solr_text, client) ==
    LET mapped == map_result(MapBag(s3_solr_text, counts_for_solr_text))
        by == <<"np_id", "year">>
    IN IF IsRaised(mapped) THEN mapped
       ELSE LET count_df == mapped.value
                gdf == groupby_agg(count_df, by,
                          [issues |-> "tunique", content_items_out |-> "sum"])
                aggregated_df == reset_index(frame(gdf, SortedSolrKeys(DOMAIN gdf)), by)
            IN Returned(to_bag(with_progress(aggregated_df, client)))

-----------------------------------------------------------------------------
(* Pipeline calls *)

\* the bags of at most MaxRecords records of one kind, in MaxParts partitions
Bags(k) == UNION {Cuts(s, MaxParts) : s \in SeqsUpTo(Universe(k), MaxRecords)}

NoCall == [fn |-> "none"]

ExIdle == /\ ex_call = NoCall
          /\ ex_out = Pending

TuIdle == /\ tu_in = <<>>
          /\ tu_acc = <<>>
          /\ tu_out = <<>>
          /\ tu_pc = "idle"

\* the pipelines whose frame has an object column (ne_entities, lang_fd):
\* the only ones that the engine's handling of object columns can affect
ObjectColumnKinds == {"entities", "langident"}

Init ==
    /\ kind \in Kinds
    /\ include_np \in (IF kind = "rebuilt" THEN BOOLEAN ELSE {TRUE})
    /\ passim \in (IF kind = "rebuilt" THEN BOOLEAN ELSE {FALSE})
    /\ convert_string \in (IF kind \in ObjectColumnKinds THEN BOOLEAN ELSE {FALSE})
    /\ bag \in Bags(kind)
    /\ ret = [c \in Clients |-> Pending]
    /\ progress_shown = FALSE
    /\ ExIdle
    /\ TuIdle

\* the outcomes of a call whose computation gives o
Outcomes(o) == IF o.status = "raised" THEN {Raised(e) : e \in o.errors} ELSE {o}

Call(k, client, o) ==
    /\ kind = k
    /\ ret[client] = Pending
    /\ \E r \in Outcomes(o) : ret' = [ret EXCEPT ![client] = r]
    /\ progress_shown' = (progress_shown \/ (client # NoClient /\ IsReturned(o)))
    /\ UNCHANGED <<kind, include_np, passim, convert_string, bag, ex_vars, tu_vars>>

ComputeStatsCanonical(client) ==
    Call("canonical", client, compute_stats_in_canonical_bag(bag, client))

ComputeStatsRebuilt(client) ==
    Call("rebuilt", client, compute_stats_in_rebuilt_bag(bag, include_np, passim, client))

ComputeStatsEntities(client) ==
    Call("entities", client, compute_stats_in_entities_bag(bag, client, convert_string))

ComputeStatsLangident(client) ==
    Call("langident", client, compute_stats_in_langident_bag(bag, client, convert_string))

ComputeStatsSolr(client) ==
    Call("solr", client, compute_stats_in_solr_text_bag(bag, client))

Next ==
    \E client \in Clients :
        \/ ComputeStatsCanonical(client)
        \/ ComputeStatsRebuilt(client)
        \/ ComputeStatsEntities(client)
        \/ ComputeStatsLangident(client)
        \/ ComputeStatsSolr(client)

Spec == Init /\ [][Next]_vars


-----------------------------------------------------------------------------
(* Extractor calls: the extractors as pure functions of one record *)

PipeIdle == /\ kind = "none"
            /\ include_np = FALSE
            /\ passim = FALSE
            /\ convert_string = FALSE
            /\ bag = <<>>
            /\ ret = [c \in Clients |-> Pending]
            /\ progress_shown = FALSE

\* ids given to the extractors: well formed, with an empty year, without a dash, empty
ExIds == {IssueId(NpN, Y19, EdA), CiId(NpN, Y19, EdA, "1"), CiId(NpG, Y20, EdB, "2"),
          <<"N", "-">>, NoDashId, <<>>}

\* the record rec with the id field added
WithId(rec, id) == [id |-> id] @@ rec

\* the records rec carrying each id of ExIds, and rec without an id
IdVariants(recs) == recs \cup {WithId(r, id) : r \in recs, id \in ExIds}

ExFullTexts == {<<>>, <<"x">>, <<"x", " ", "y">>, <<" ", "x", " ", " ", "y", " ">>,
                <<"x", "\n", "y", " ", "x">>, <<" ">>}

ExMentions == {Mention(Q1), Mention(Q2), Mention(NIL), Mention(PyNone), MentionNoLink}

ExCanonical ==
    IdVariants({[pp |-> pp, i |-> MapSeq(tps, Item)] :
                   pp \in SeqsUpTo({1, 2}, 2), tps \in SeqsUpTo({"image", "article"}, 2)})

ExRebuilt == IdVariants({[ft |-> ft] : ft \in ExFullTexts} \cup {[lg |-> <<"f", "r">>]})

ExEntities == IdVariants({[nes |-> nes] : nes \in SeqsUpTo(ExMentions, 2)})

ExLangident ==
    IdVariants({[tp |-> tp, lg |-> lg] : tp \in {"ar", "img"}, lg \in {<<"f", "r">>, PyNone}})

ExSolr == IdVariants(SolrItems)

ExCalls ==
    {[fn |-> "counts_for_canonical_issue", rec |-> r, include_np_yr |-> o] :
        r \in ExCanonical, o \in BOOLEAN}
    \cup {[fn |-> "counts_for_rebuilt", rec |-> r, include_np |-> o, passim |-> q] :
        r \in ExRebuilt, o \in BOOLEAN, q \in BOOLEAN}
    \cup {[fn |-> "counts_for_entities", rec |-> r] : r \in ExEntities}
    \cup {[fn |-> "counts_for_langident", rec |-> r] : r \in ExLangident}
    \cup {[fn |-> "counts_for_solr_text", rec |-> r] : r \in ExSolr}

InitExtract ==
    /\ ex_call \in ExCalls
    /\ ex_out = Pending
    /\ PipeIdle
    /\ TuIdle

Extract(fn, out) ==
    /\ ex_call.fn = fn
    /\ ex_out = Pending
    /\ ex_out' = out
    /\ UNCHANGED <<ex_call, pipe_vars, tu_vars>>

ExtractCanonical ==
    Extract("counts_for_canonical_issue",
            counts_for_canonical_issue(ex_call.rec, ex_call.include_np_yr))

ExtractRebuilt ==
    Extract("counts_for_rebuilt",
            counts_for_rebuilt(ex_call.rec, ex_call.include_np, ex_call.passim))

ExtractEntities == Extract("counts_for_entities", counts_for_entities(ex_call.rec))

ExtractLangident == Extract("counts_for_langident", counts_for_langident(ex_call.rec))

ExtractSolr == Extract("counts_for_solr_text", counts_for_solr_text(ex_call.rec))

NextExtract ==
    \/ ExtractCanonical
    \/ ExtractRebuilt
    \/ ExtractEntities
    \/ ExtractLangident
    \/ ExtractSolr

SpecExtract == InitExtract /\ [][NextExtract]_vars

-----------------------------------------------------------------------------
(* tunique alone: chunk per partition, agg in any order, finalize *)

TuGroups == {"g1", "g2"}
TuValues == {"a", "b"}
TuRows == {[g |-> g, v |-> v] : g \in TuGroups, v \in TuValues}

\* a partition's rows as the grouped column that chunk is given
TuGrouped(part) == grouped(part, <<"g">>, "v")

InitTunique ==
    /\ tu_in \in UNION {Cuts(s, TuMaxParts) : s \in SeqsUpTo(TuRows, TuMaxRows)}
    /\ tu_acc = [p \in 1..TuMaxParts |-> [chunked |-> FALSE, s |-> TuGrouped(tu_in[p])]]
    /\ tu_out = <<>>
    /\ tu_pc = "run"
    /\ PipeIdle
    /\ ExIdle

\* chunk is applied to one partition
TuChunk(p) ==
    /\ tu_pc = "run"
    /\ p \in 1..Len(tu_acc)
    /\ ~tu_acc[p].chunked
    /\ tu_acc' = [tu_acc EXCEPT ![p] = [chunked |-> TRUE, s |-> chunk(@.s)]]
    /\ UNCHANGED <<tu_in, tu_out, tu_pc, pipe_vars, ex_vars>>

\* agg is applied to two intermediate results, in either order (tree reduction)
TuCombine(i, j) ==
    /\ tu_pc = "run"
    /\ i \in 1..Len(tu_acc) /\ j \in 1..Len(tu_acc) /\ i # j
    /\ tu_acc[i].chunked /\ tu_acc[j].chunked
    /\ LET merged == [chunked |-> TRUE, s |-> agg(<<tu_acc[i].s, tu_acc[j].s>>)]
           rest == SelectSeq([k \in 1..Len(tu_acc) |-> [k |-> k, a |-> tu_acc[k]]],
                             LAMBDA e : e.k # i /\ e.k # j)
       IN tu_acc' = <<merged>> \o [k \in 1..Len(rest) |-> rest[k].a]
    /\ UNCHANGED <<tu_in, tu_out, tu_pc, pipe_vars, ex_vars>>

\* agg is applied to what is left, and finalize to its result
TuFinalize ==
    /\ tu_pc = "run"
    /\ \A p \in 1..Len(tu_acc) : tu_acc[p].chunked
    /\ tu_out' = finalize(agg([p \in 1..Len(tu_acc) |-> tu_acc[p].s]))
    /\ tu_pc' = "done"
    /\ UNCHANGED <<tu_in, tu_acc, pipe_vars, ex_vars>>

NextTunique ==
    \/ \E p \in 1..TuMaxParts : TuChunk(p)
    \/ \E i, j \in 1..TuMaxParts : TuCombine(i, j)
    \/ TuFinalize

SpecTunique == InitTunique /\ [][NextTunique]_vars


-----------------------------------------------------------------------------
(* What the input of a pipeline call determines *)

\* all records of the bag
Flat(b) == Concat(b)

\* the count record the pipeline's extractor gives for the record r
ExtractedOf(r) ==
    CASE kind = "canonical" -> counts_for_canonical_issue(r, TRUE)
      [] kind = "rebuilt" -> counts_for_rebuilt(r, include_np, passim)
      [] kind = "entities" -> counts_for_entities(r)
      [] kind = "langident" -> counts_for_langident(r)
      [] kind = "solr" -> counts_for_solr_text(r)

ExtractionFails == \E r \in Range(Flat(bag)) : IsRaised(ExtractedOf(r))

GroupBy == IF kind = "rebuilt" /\ ~include_np THEN <<"year">> ELSE <<"np_id", "year">>

InputKey(r) == KeyOf(ExtractedOf(r).value, GroupBy)

InputKeys == {InputKey(r) : r \in Range(Flat(bag))}

\* the input records of the group key
Members(key) == SelectSeq(Flat(bag), LAMBDA r : InputKey(r) = key)

Keyed(rec) == Range(GroupBy) \subseteq DOMAIN rec

\* the group of the i-th returned record: the key it carries, or else the
\* i-th group key in the order of the grouped frame
GroupOfRecord(out, i) ==
    IF Keyed(out[i]) THEN KeyOf(out[i], GroupBy)
    ELSE IF kind = "solr" THEN SortedSolrKeys(InputKeys)[i] ELSE SortedKeys(InputKeys)[i]

SumFields ==
    CASE kind = "canonical" -> {"issues", "pages", "images", "content_items_out"}
      [] kind = "rebuilt" -> IF passim THEN {"content_items_out"}
                             ELSE {"content_items_out", "ft_tokens"}
      [] kind = "langident" -> {"content_items_out", "images"}
      [] kind = "solr" -> {"content_items_out"}
      [] OTHER -> {}

\* the arithmetic sum of the extracted values of field f over the group
TrueSum(key, f) == SumSeq(MapSeq(Members(key), LAMBDA r : ExtractedOf(r).value[f]))

-----------------------------------------------------------------------------
(* Claims *)

\* the distinct values of group g among all rows given to tunique
TuDistinct(g) ==
    {r.v : r \in {r \in Range(Concat(tu_in)) : r.g = g}}

\* C1: for every group and every split of its values into partitions, combined
\* in any order, tunique returns the number of distinct values of the group.
C1_TuniqueCountsDistinct ==
    tu_pc = "done" =>
        tu_out = [key \in {<<r.g>> : r \in Range(Concat(tu_in))} |->
                     Cardinality(TuDistinct(key[1]))]

\* a value seen twice in one partition and again in another, two partitions
\* of results merged by agg before the final step
C1_Witness ==
    /\ tu_pc = "done"
    /\ Len(tu_acc) < TuMaxParts
    /\ \E p, q \in 1..TuMaxParts :
          /\ p # q
          /\ Range(tu_in[p]) \cap Range(tu_in[q]) # {}

\* C2: every sum-reduced field of a returned record is the arithmetic sum of
\* the extracted values of that field over the input records of the record's
\* group, in the canonical, rebuilt, passim, langident and search-index
\* pipelines and in both grouping modes.
C2_SumFieldsAreSums ==
    \A c \in Clients :
        (kind # "entities" /\ IsReturned(ret[c])) =>
            \A i \in 1..Len(ret[c].value) : \A f \in SumFields :
                ret[c].value[i][f] = TrueSum(GroupOfRecord(ret[c].value, i), f)

\* a per-year group of rebuilt articles whose members lie in both partitions
C2_Witness ==
    \E c \in Clients :
        /\ kind = "rebuilt" /\ ~include_np /\ ~passim
        /\ IsReturned(ret[c])
        /\ \E r1 \in Range(bag[1]), r2 \in Range(bag[2]) :
              /\ InputKey(r1) = InputKey(r2)
              /\ r1.id[1] # r2.id[1]
        /\ \E i \in 1..Len(ret[c].value) : ret[c].value[i].ft_tokens >= 3

\* C3: in the entity pipeline content_items_out is the number of items of the
\* group and ne_mentions the sum of their mention-list lengths, whatever the
\* number of distinct linked entities of each item.
C3_EntityItemAndMentionCounts ==
    \A c \in Clients :
        (kind = "entities" /\ IsReturned(ret[c])) =>
            \A i \in 1..Len(ret[c].value) :
                LET rec == ret[c].value[i]
                    items == Members(KeyOf(rec, GroupBy))
                IN /\ rec.content_items_out = Len(items)
                   /\ rec.ne_mentions = SumSeq(MapSeq(items, LAMBDA r : Len(r.nes)))

\* the linked-entity identifiers, neither null nor "NIL", of the mentions of an item
LinkedEntities(r) ==
    {r.nes[j].wkd_id : j \in {j \in 1..Len(r.nes) :
                                 /\ "wkd_id" \in DOMAIN r.nes[j]
                                 /\ r.nes[j].wkd_id # NIL
                                 /\ r.nes[j].wkd_id # PyNone}}

\* C4: in the entity pipeline ne_entities is the number of distinct linked
\* entities (neither null nor "NIL") of the group; an item without any
\* contributes nothing, and a shared identifier counts once.
C4_EntityDistinctCount ==
    \A c \in Clients :
        (kind = "entities" /\ IsReturned(ret[c])) =>
            \A i \in 1..Len(ret[c].value) :
                LET rec == ret[c].value[i]
                    items == Members(KeyOf(rec, GroupBy))
                IN rec.ne_entities = Cardinality(UNION {LinkedEntities(r) : r \in Range(items)})

\* C5: the group keys of the returned records are exactly the group keys of
\* the input records, one record per group key.
C5_OutputKeysAreInputKeys ==
    \A c \in Clients :
        IsReturned(ret[c]) =>
            LET out == ret[c].value
            IN /\ \A i \in 1..Len(out) : Keyed(out[i])
               /\ {KeyOf(out[i], GroupBy) : i \in 1..Len(out)} = InputKeys
               /\ \A i, j \in 1..Len(out) :
                     i # j => KeyOf(out[i], GroupBy) # KeyOf(out[j], GroupBy)

\* the id of the record is missing or has fewer than two dash-separated components
MalformedId(rec) == "id" \notin DOMAIN rec \/ Len(Split(rec.id, "-")) < 2

\* the extractors of the records that are identified by their id field
IdExtractors == {"counts_for_canonical_issue", "counts_for_rebuilt",
                 "counts_for_entities", "counts_for_langident"}

\* C6: no extractor, in any option setting, returns a count record for a
\* record whose id is missing or has fewer than two dash-separated
\* components: it raises. Stated for the extractors of id-carrying records.
C6_MalformedIdRaises ==
    (ex_out # Pending /\ ex_call.fn \in IdExtractors /\ MalformedId(ex_call.rec))
        => IsRaised(ex_out)

\* C7: a pipeline call raises or returns the complete reduced records of
\* every input record; when the extraction of any input record fails it raises.
C7_CompleteOrRaise ==
    \A c \in Clients :
        ret[c] # Pending =>
            /\ IsRaised(ret[c]) \/ IsReturned(ret[c])
            /\ ExtractionFails => IsRaised(ret[c])
            /\ IsReturned(ret[c]) =>
                  /\ Len(ret[c].value) = Cardinality(InputKeys)
                  /\ kind \in {"rebuilt", "langident", "solr"} =>
                        SumSeq(MapSeq(ret[c].value, LAMBDA rec : rec.content_items_out))
                            = Len(Flat(bag))
                  /\ kind = "canonical" =>
                        SumSeq(MapSeq(ret[c].value, LAMBDA rec : rec.issues))
                            = Len(Flat(bag))

\* a call that raised on a bag holding a failing record next to good ones
C7_Witness ==
    \E c \in Clients :
        /\ IsRaised(ret[c])
        /\ ExtractionFails
        /\ \E r \in Range(Flat(bag)) : IsReturned(ExtractedOf(r))

\* C8: every record returned by the rebuilt/passim pipeline carries 'year',
\* and 'np_id' too when include_np is true.
C8_RebuiltRecordsCarryKey ==
    \A c \in Clients :
        (kind = "rebuilt" /\ IsReturned(ret[c])) =>
            \A i \in 1..Len(ret[c].value) :
                /\ "year" \in DOMAIN ret[c].value[i]
                /\ include_np => "np_id" \in DOMAIN ret[c].value[i]

\* the label of a language-identification item
LabelOf(r) == IF r.lg = PyNone THEN NoneLabel ELSE r.lg

\* C9: the langident pipeline returns, for every group, lang_fd as the
\* frequency count of the labels of the group's items ("None" for an absent
\* language); the call returns it rather than failing.
C9_LangFdIsFrequencyCount ==
    \A c \in Clients :
        (kind = "langident" /\ ret[c] # Pending /\ ~ExtractionFails) =>
            /\ IsReturned(ret[c])
            /\ \A i \in 1..Len(ret[c].value) :
                  LET rec == ret[c].value[i]
                      items == Members(KeyOf(rec, GroupBy))
                  IN rec.lang_fd =
                        [l \in {LabelOf(r) : r \in Range(items)} |->
                            Len(SelectSeq(items, LAMBDA r : LabelOf(r) = l))]

\* C10: the records returned with a client handle are the records returned
\* without one.
C10_ClientDoesNotChangeResult ==
    (ret[NoClient] # Pending /\ ret[SomeClient] # Pending) =>
        /\ ret[SomeClient].status = ret[NoClient].status
        /\ IsReturned(ret[NoClient]) => ret[SomeClient].value = ret[NoClient].value

\* both calls returned records, and progress was reported
C10_Witness ==
    /\ IsReturned(ret[NoClient]) /\ IsReturned(ret[SomeClient])
    /\ Len(ret[SomeClient].value) >= 2
    /\ progress_shown


-----------------------------------------------------------------------------
(* Extractor calls and pipeline calls together *)

InitAll == Init \/ InitExtract

NextAll == Next \/ NextExtract

SpecAll == InitAll /\ [][NextAll]_vars

\* the whitespace-separated tokens of s, read off from left to right
RECURSIVE TokensOf(_)
TokensOf(s) ==
    IF s = <<>> THEN <<>>
    ELSE IF Head(s) \in Whitespace THEN TokensOf(Tail(s))
    ELSE LET stops == {i \in 1..Len(s) : s[i] \in Whitespace}
             n == IF stops = {} THEN Len(s) + 1
                  ELSE CHOOSE i \in stops : \A j \in stops : i <= j
         IN <<SubSeq(s, 1, n - 1)>> \o TokensOf(SubSeq(s, n, Len(s)))

\* C11: counts_for_rebuilt gives ft_tokens as the number of whitespace-separated
\* tokens of the full text, 0 without a full-text field; in passim mode the
\* count record has no ft_tokens, and no record returned by the passim
\* pipeline has one.
C11_FtTokens ==
    /\ (ex_call.fn = "counts_for_rebuilt" /\ IsReturned(ex_out)) =>
          IF ex_call.passim THEN "ft_tokens" \notin DOMAIN ex_out.value
          ELSE /\ "ft_tokens" \in DOMAIN ex_out.value
               /\ ex_out.value.ft_tokens =
                     (IF "ft" \in DOMAIN ex_call.rec
                      THEN Len(TokensOf(ex_call.rec.ft)) ELSE 0)
    /\ \A c \in Clients :
          (kind = "rebuilt" /\ passim /\ IsReturned(ret[c])) =>
              \A i \in 1..Len(ret[c].value) : "ft_tokens" \notin DOMAIN ret[c].value[i]

\* a full text with leading, doubled and trailing blanks, counted as two tokens
C11_Witness ==
    /\ ex_call.fn = "counts_for_rebuilt"
    /\ IsReturned(ex_out)
    /\ ~ex_call.passim
    /\ "ft" \in DOMAIN ex_call.rec
    /\ Len(ex_call.rec.ft) = 6
    /\ ex_out.value.ft_tokens = 2


\* the positions of the dashes of an id
Dashes(id) == {k \in 1..Len(id) : id[k] = "-"}

\* the part of an id before its first dash
FirstComponent(id) ==
    SubSeq(id, 1, (CHOOSE k \in Dashes(id) : \A j \in Dashes(id) : k <= j) - 1)

\* the part of an id between its first dash and its second dash (or its end)
SecondComponent(id) ==
    LET d1 == CHOOSE k \in Dashes(id) : \A j \in Dashes(id) : k <= j
        later == {k \in Dashes(id) : k > d1}
        d2 == IF later = {} THEN Len(id) + 1
              ELSE CHOOSE k \in later : \A j \in later : k <= j
    IN SubSeq(id, d1 + 1, d2 - 1)

\* C12: counts_for_canonical_issue returns issues = 1, pages = the number of
\* distinct page ids, images = the number of items of type "image"; the record
\* has np_id and year, the first and second component of the id, if and only
\* if include_np_yr is requested.
C12_CanonicalCounts ==
    (ex_call.fn = "counts_for_canonical_issue" /\ ex_out # Pending) =>
        LET issue == ex_call.rec
            wellformed == "id" \in DOMAIN issue /\ Dashes(issue.id) # {}
        IN /\ IsReturned(ex_out) <=> (~ex_call.include_np_yr \/ wellformed)
           /\ IsReturned(ex_out) =>
                 /\ ex_out.value.issues = 1
                 /\ ex_out.value.pages = Cardinality({issue.pp[k] : k \in 1..Len(issue.pp)})
                 /\ ex_out.value.images =
                       Cardinality({k \in 1..Len(issue.i) : issue.i[k].m.tp = "image"})
                 /\ ("np_id" \in DOMAIN ex_out.value) <=> ex_call.include_np_yr
                 /\ ("year" \in DOMAIN ex_out.value) <=> ex_call.include_np_yr
                 /\ ex_call.include_np_yr =>
                       /\ ex_out.value.np_id = FirstComponent(issue.id)
                       /\ ex_out.value.year = SecondComponent(issue.id)

\* an issue listing one page twice, with an image item, np_id and year requested
C12_Witness ==
    /\ ex_call.fn = "counts_for_canonical_issue"
    /\ ex_call.include_np_yr
    /\ IsReturned(ex_out)
    /\ ex_call.rec.pp = <<1, 1>>
    /\ ex_out.value.pages = 1
    /\ ex_out.value.images = 1
    /\ ex_out.value.year = Y19

\* the pipelines that reduce the issues field by tunique
TuniqueIssueKinds == {"rebuilt", "entities", "langident", "solr"}

\* C13: in the pipelines that reduce issues by distinct count (rebuilt, passim,
\* entities, langident, search-index) every returned record has
\* 1 <= issues <= content_items_out.
C13_IssuesBetweenOneAndItems ==
    \A c \in Clients :
        (kind \in TuniqueIssueKinds /\ IsReturned(ret[c])) =>
            \A i \in 1..Len(ret[c].value) :
                /\ 1 <= ret[c].value[i].issues
                /\ ret[c].value[i].issues <= ret[c].value[i].content_items_out

\* a group of several issues with more content items than issues, next to
\* another group
C13_Witness ==
    \E c \in Clients :
        /\ kind \in TuniqueIssueKinds
        /\ IsReturned(ret[c])
        /\ Len(ret[c].value) >= 2
        /\ \E i \in 1..Len(ret[c].value) :
              /\ ret[c].value[i].issues >= 2
              /\ ret[c].value[i].issues < ret[c].value[i].content_items_out

=============================================================================
